---- MODULE Spec2Model ----
(***************************************************************************)
(* A model of the request-execution core of AgentFarm-MCP:                 *)
(*   - CacheService      (agentfarm_mcp/services/cache_service.py)         *)
(*   - CircuitBreaker    (agentfarm_mcp/utils/circuit_breaker.py)          *)
(*   - ToolBase.__call__ (agentfarm_mcp/tools/base.py and                  *)
(*                        mcp/mcp_server/tools/base.py)                    *)
(* Each component has its own specification over the shared variables:    *)
(* SpecCache, SpecBreaker and SpecTool.                                    *)
(***************************************************************************)
EXTENDS Integers, Sequences, FiniteSets, TLC

VARIABLES
    \* the wall clock read by time.time()
    now,
    \* CacheService
    enabled, max_size, ttl_seconds, cache, timestamps, hits, misses,
    \* what the caller of the cache has seen: the last call and its outcome,
    \* the number of get calls since construction or the last clear, and the
    \* stored keys in the order of their last use, and for each stored key the
    \* time of the last set call on it
    ret, gets, lru, setAt,
    \* CircuitBreaker
    failure_threshold, timeout, success_threshold,
    state, failure_count, success_count, last_failure_time,
    \* where the caller of the breaker is (idle, or running the wrapped
    \* function inside call), the last thing that happened to the breaker, the
    \* number of calls in a row that failed, and the number of calls that
    \* succeeded since the breaker last became half-open; and of the last call
    \* or reset: the state it found the breaker in, how many times the call
    \* invoked the wrapped function, what the function did and what the call
    \* did to its caller
    pc, ev, streak, probes, last,
    \* ToolBase: which of the two ToolBase classes of the repository the tool
    \* derives from, and what the last __call__ since construction or the last
    \* clear of the cache did: its parameters, whether it called cache.get, ran
    \* the work function and called cache.set, and the envelope it returned or
    \* the exception it let through
    impl, response,
    \* threads sharing one CacheService: for each thread the call it is in and
    \* the statement it has reached, with its local variables, or the outcome
    \* of its last call; the (key, value) pairs passed to set so far; the number
    \* of calls and of clear calls started so far; and whether a get or set
    \* has been started while another get or set was in flight.  The same
    \* threads may share one CircuitBreaker instead; cohort then holds the
    \* number of calls the breaker has admitted, and whether each of them was
    \* admitted by a Closed breaker with failure_count = 0 and has a wrapped
    \* function that fails, and the number of calls admitted while the breaker
    \* was HalfOpen since it last became HalfOpen
    th, written, started, clears, mixed, cohort,
    \* RedisCacheService: the object's fields together with the keys the Redis
    \* server holds for it; and the number of get calls since construction or
    \* the last clear with the server's replies to the last request
    redis, wire,
    \* two calls of CacheService.generate_key: their arguments and results
    keygen

cacheVars == <<enabled, max_size, ttl_seconds, cache, timestamps, hits, misses,
               ret, gets, lru, setAt>>

breakerVars == <<failure_threshold, timeout, success_threshold,
                 state, failure_count, success_count, last_failure_time,
                 pc, ev, streak, probes, last>>

toolVars == <<impl, response>>

threadVars == <<th, written, started, clears, mixed, cohort>>

redisVars == <<redis, wire>>
keyVars == <<keygen>>

vars == <<now, cacheVars, breakerVars, toolVars, threadVars, redisVars, keyVars>>

\* Python's None
None == "None"

-----------------------------------------------------------------------------
(* Bounds of the model *)

\* the clock runs from 0 to MaxTime
MaxTime == 2
\* CacheConfig.max_size ranges over 0..MaxCap
MaxCap == 2
\* CacheConfig.ttl_seconds ranges over 0..MaxTtl
MaxTtl == 1
\* at most MaxGets get calls between two clears
MaxGets == 2

\* failure_threshold and success_threshold range over 1..MaxThreshold
MaxThreshold == 2
\* CircuitBreaker.timeout ranges over 0..MaxTimeout
MaxTimeout == 1
\* the clock of the breaker's specification runs from 0 to MaxClock
MaxClock == 3
\* the wrapped function fails only while failure_count < MaxFailures
MaxFailures == 3

\* at most MaxLookups cache lookups by ToolBase.__call__ between two clears
MaxLookups == 2
\* the work function takes 0..MaxWork ticks of the clock
MaxWork == 1

\* the threads of the model start at most MaxCalls calls between them
MaxCalls == 3

Keys == {"k1", "k2", "k3"}
Values == {"v1", "v2"}

-----------------------------------------------------------------------------
(* collections.OrderedDict, as a sequence of entries, oldest first *)

KeysOf(c) == {c[i].k : i \in DOMAIN c}

HasKey(c, key) == key \in KeysOf(c)

ValueOf(c, key) == c[CHOOSE i \in DOMAIN c : c[i].k = key].v

\* del d[key]
DelKey(c, key) == SelectSeq(c, LAMBDA e : e.k # key)

\* d.move_to_end(key)
MoveToEnd(c, key) == Append(DelKey(c, key), [k |-> key, v |-> ValueOf(c, key)])

\* d[key] = value: an existing key keeps its place, a new key goes last
SetItem(c, key, value) ==
    IF HasKey(c, key)
    THEN [i \in DOMAIN c |-> IF c[i].k = key THEN [k |-> key, v |-> value] ELSE c[i]]
    ELSE Append(c, [k |-> key, v |-> value])

\* del d[key] on a plain dict
DelTimestamp(ts, key) == [x \in (DOMAIN ts) \ {key} |-> ts[x]]

\* d[key] = value on a plain dict
SetTimestamp(ts, key, t) == [x \in (DOMAIN ts) \cup {key} |-> IF x = key THEN t ELSE ts[x]]

-----------------------------------------------------------------------------
(* CacheService.  A cache state st is a record of the object's fields;     *)
(* every method is a function from the state (and the clock) to the new    *)
(* state and the method's outcome: the value returned (val) and the        *)
(* exception raised (exc, "none" when the call returns).                   *)

CacheState == [enabled |-> enabled, max_size |-> max_size, ttl_seconds |-> ttl_seconds,
               cache |-> cache, timestamps |-> timestamps,
               hits |-> hits, misses |-> misses]

Returns(st, value) == [st |-> st, val |-> value, exc |-> "none"]

Raises(st, exception) == [st |-> st, val |-> None, exc |-> exception]

\* CacheService._evict without line 110, the deletion of the timestamp
Evict_KeepsTimestamp(st, key) ==
    IF HasKey(st.cache, key)
    THEN [st EXCEPT !.cache = DelKey(st.cache, key)]
    ELSE st

\* CacheService._evict
Evict(st, key) ==
    IF HasKey(st.cache, key)
    THEN [st EXCEPT !.cache = DelKey(st.cache, key),
                    !.timestamps = DelTimestamp(st.timestamps, key)]
    ELSE st

\* CacheService.get without line 71, the move_to_end of the key that was hit
CacheGet_NoMove(st, key, t) ==
    IF ~st.enabled THEN Returns(st, None)
    ELSE IF ~HasKey(st.cache, key)
    THEN Returns([st EXCEPT !.misses = @ + 1], None)
    ELSE IF st.ttl_seconds > 0 /\ t - st.timestamps[key] > st.ttl_seconds
    THEN Returns([Evict(st, key) EXCEPT !.misses = @ + 1], None)
    ELSE Returns([st EXCEPT !.hits = @ + 1], ValueOf(st.cache, key))

\* CacheService.get without the ttl_seconds > 0 test of line 62
CacheGet_NoTtlGuard(st, key, t) ==
    IF ~st.enabled THEN Returns(st, None)
    ELSE IF ~HasKey(st.cache, key)
    THEN Returns([st EXCEPT !.misses = @ + 1], None)
    ELSE IF t - st.timestamps[key] > st.ttl_seconds
    THEN Returns([Evict(st, key) EXCEPT !.misses = @ + 1], None)
    ELSE Returns([st EXCEPT !.cache = MoveToEnd(st.cache, key), !.hits = @ + 1],
                 ValueOf(st.cache, key))

\* CacheService.get without line 66, the miss counted for an expired entry
CacheGet_ExpiredNotCounted(st, key, t) ==
    IF ~st.enabled THEN Returns(st, None)
    ELSE IF ~HasKey(st.cache, key)
    THEN Returns([st EXCEPT !.misses = @ + 1], None)
    ELSE IF st.ttl_seconds > 0 /\ t - st.timestamps[key] > st.ttl_seconds
    THEN Returns(Evict(st, key), None)
    ELSE Returns([st EXCEPT !.cache = MoveToEnd(st.cache, key), !.hits = @ + 1],
                 ValueOf(st.cache, key))

\* CacheService.get without lines 53-54, the test of self.enabled
CacheGet_IgnoresEnabled(st, key, t) ==
    IF ~HasKey(st.cache, key)
    THEN Returns([st EXCEPT !.misses = @ + 1], None)
    ELSE IF st.ttl_seconds > 0 /\ t - st.timestamps[key] > st.ttl_seconds
    THEN Returns([Evict(st, key) EXCEPT !.misses = @ + 1], None)
    ELSE Returns([st EXCEPT !.cache = MoveToEnd(st.cache, key), !.hits = @ + 1],
                 ValueOf(st.cache, key))

\* CacheService.get without line 64, the eviction of the expired entry
CacheGet_ExpiredKept(st, key, t) ==
    IF ~st.enabled THEN Returns(st, None)
    ELSE IF ~HasKey(st.cache, key)
    THEN Returns([st EXCEPT !.misses = @ + 1], None)
    ELSE IF st.ttl_seconds > 0 /\ t - st.timestamps[key] > st.ttl_seconds
    THEN Returns([st EXCEPT !.misses = @ + 1], None)
    ELSE Returns([st EXCEPT !.cache = MoveToEnd(st.cache, key), !.hits = @ + 1],
                 ValueOf(st.cache, key))

\* CacheService.get where a hit also stamps the entry with the time of the read
CacheGet_RefreshesTimestamp(st, key, t) ==
    IF ~st.enabled THEN Returns(st, None)
    ELSE IF ~HasKey(st.cache, key)
    THEN Returns([st EXCEPT !.misses = @ + 1], None)
    ELSE IF st.ttl_seconds > 0 /\ t - st.timestamps[key] > st.ttl_seconds
    THEN Returns([Evict(st, key) EXCEPT !.misses = @ + 1], None)
    ELSE Returns([st EXCEPT !.cache = MoveToEnd(st.cache, key), !.hits = @ + 1,
                            !.timestamps = SetTimestamp(st.timestamps, key, t)],
                 ValueOf(st.cache, key))

\* CacheService.get
CacheGet(st, key, t) ==
    IF ~st.enabled THEN Returns(st, None)
    ELSE IF ~HasKey(st.cache, key)
    THEN Returns([st EXCEPT !.misses = @ + 1], None)
    ELSE IF st.ttl_seconds > 0 /\ t - st.timestamps[key] > st.ttl_seconds
    THEN Returns([Evict(st, key) EXCEPT !.misses = @ + 1], None)
    ELSE Returns([st EXCEPT !.cache = MoveToEnd(st.cache, key), !.hits = @ + 1],
                 ValueOf(st.cache, key))

\* CacheService.set with > for >= in the capacity test of line 91
CacheSet_OffByOne(st, key, value, t) ==
    IF ~st.enabled THEN Returns(st, None)
    ELSE IF Len(st.cache) > st.max_size /\ ~HasKey(st.cache, key) /\ st.cache = <<>>
    THEN Raises(st, "StopIteration")
    ELSE LET room == IF Len(st.cache) > st.max_size /\ ~HasKey(st.cache, key)
                   THEN Evict(st, Head(st.cache).k)
                   ELSE st
         IN Returns([room EXCEPT !.cache = MoveToEnd(SetItem(room.cache, key, value), key),
                               !.timestamps = SetTimestamp(room.timestamps, key, t)],
                    None)

\* CacheService.set without lines 87-88, the test of enabled
CacheSet_IgnoresEnabled(st, key, value, t) ==
    IF Len(st.cache) >= st.max_size /\ ~HasKey(st.cache, key) /\ st.cache = <<>>
    THEN Raises(st, "StopIteration")
    ELSE LET room == IF Len(st.cache) >= st.max_size /\ ~HasKey(st.cache, key)
                   THEN Evict(st, Head(st.cache).k)
                   ELSE st
         IN Returns([room EXCEPT !.cache = MoveToEnd(SetItem(room.cache, key, value), key),
                               !.timestamps = SetTimestamp(room.timestamps, key, t)],
                    None)

\* CacheService.set without the "key not in self._cache" test of line 91
CacheSet_EvictsOnUpdate(st, key, value, t) ==
    IF ~st.enabled THEN Returns(st, None)
    ELSE IF Len(st.cache) >= st.max_size /\ st.cache = <<>>
    THEN Raises(st, "StopIteration")
    ELSE LET room == IF Len(st.cache) >= st.max_size
                   THEN Evict(st, Head(st.cache).k)
                   ELSE st
         IN Returns([room EXCEPT !.cache = MoveToEnd(SetItem(room.cache, key, value), key),
                               !.timestamps = SetTimestamp(room.timestamps, key, t)],
                    None)

\* CacheService.set that makes room by evicting an expired entry when there is
\* one, and the oldest entry only otherwise
CacheSet_EvictsExpiredFirst(st, key, value, t) ==
    IF ~st.enabled THEN Returns(st, None)
    ELSE IF Len(st.cache) >= st.max_size /\ ~HasKey(st.cache, key) /\ st.cache = <<>>
    THEN Raises(st, "StopIteration")
    ELSE LET stale == SelectSeq(st.cache, LAMBDA e : st.ttl_seconds > 0
                                    /\ t - st.timestamps[e.k] > st.ttl_seconds)
             room == IF Len(st.cache) >= st.max_size /\ ~HasKey(st.cache, key)
                   THEN Evict(st, IF stale # <<>> THEN Head(stale).k ELSE Head(st.cache).k)
                   ELSE st
         IN Returns([room EXCEPT !.cache = MoveToEnd(SetItem(room.cache, key, value), key),
                               !.timestamps = SetTimestamp(room.timestamps, key, t)],
                    None)

\* CacheService.set: next(iter(self._cache)) raises StopIteration on an empty
\* OrderedDict, which happens when max_size = 0
CacheSet(st, key, value, t) ==
    IF ~st.enabled THEN Returns(st, None)
    ELSE IF Len(st.cache) >= st.max_size /\ ~HasKey(st.cache, key) /\ st.cache = <<>>
    THEN Raises(st, "StopIteration")
    ELSE LET room == IF Len(st.cache) >= st.max_size /\ ~HasKey(st.cache, key)
                   THEN Evict(st, Head(st.cache).k)
                   ELSE st
         IN Returns([room EXCEPT !.cache = MoveToEnd(SetItem(room.cache, key, value), key),
                               !.timestamps = SetTimestamp(room.timestamps, key, t)],
                    None)

\* CacheService.clear without lines 120-121, the reset of the counters
CacheClear_KeepsCounters(st) ==
    Returns([st EXCEPT !.cache = <<>>, !.timestamps = <<>>], None)

\* CacheService.clear
CacheClear(st) ==
    Returns([st EXCEPT !.cache = <<>>, !.timestamps = <<>>, !.hits = 0, !.misses = 0],
            None)

\* CacheService.get_stats (hit_rate is left out: the model has no fractions)
GetStats(st) ==
    [enabled |-> st.enabled, size |-> Len(st.cache), max_size |-> st.max_size,
     hits |-> st.hits, misses |-> st.misses, ttl_seconds |-> st.ttl_seconds]

-----------------------------------------------------------------------------
(* CircuitBreaker.  A breaker state b is a record of the object's fields.  *)

BreakerState == [failure_threshold |-> failure_threshold, timeout |-> timeout,
                 success_threshold |-> success_threshold, state |-> state,
                 failure_count |-> failure_count, success_count |-> success_count,
                 last_failure_time |-> last_failure_time]

\* CircuitState
CLOSED == "closed"
OPEN == "open"
HALF_OPEN == "half_open"

\* last_failure_time: float | None, as a sequence: empty for None, <<t>> for
\* the timestamp t
NoTime == <<>>
At(t) == <<t>>
TimeOf(x) == x[1]

\* the truth value Python gives a float | None in a condition: None and 0.0
\* are false
Truthy(x) == x # NoTime /\ TimeOf(x) # 0

\* CircuitBreaker.call, lines 85-96, with >= for > in the timeout test
Admission_AtTimeout(b, t) ==
    IF b.state = OPEN
    THEN IF Truthy(b.last_failure_time) /\ t - TimeOf(b.last_failure_time) >= b.timeout
         THEN [b |-> [b EXCEPT !.state = HALF_OPEN, !.success_count = 0], exc |-> "none"]
         ELSE [b |-> b, exc |-> "CircuitOpenError"]
    ELSE [b |-> b, exc |-> "none"]

\* CircuitBreaker.call, lines 85-96: what the breaker does before it runs the
\* wrapped function; exc is the exception it raises instead of running it
Admission(b, t) ==
    IF b.state = OPEN
    THEN IF Truthy(b.last_failure_time) /\ t - TimeOf(b.last_failure_time) > b.timeout
         THEN [b |-> [b EXCEPT !.state = HALF_OPEN, !.success_count = 0], exc |-> "none"]
         ELSE [b |-> b, exc |-> "CircuitOpenError"]
    ELSE [b |-> b, exc |-> "none"]

\* CircuitBreaker._on_success without line 122, the reset of failure_count
\* when the circuit closes, and without line 129, its reset in Closed
OnSuccess_KeepsFailures(b) ==
    IF b.state = HALF_OPEN
    THEN IF b.success_count + 1 >= b.success_threshold
         THEN [b EXCEPT !.state = CLOSED, !.success_count = 0]
         ELSE [b EXCEPT !.success_count = @ + 1]
    ELSE b

\* CircuitBreaker._on_success with > for >= in the threshold test of line 118
OnSuccess_OneProbeLate(b) ==
    IF b.state = HALF_OPEN
    THEN IF b.success_count + 1 > b.success_threshold
         THEN [b EXCEPT !.state = CLOSED, !.failure_count = 0, !.success_count = 0]
         ELSE [b EXCEPT !.success_count = @ + 1]
    ELSE IF b.state = CLOSED
    THEN IF b.failure_count > 0 THEN [b EXCEPT !.failure_count = 0] ELSE b
    ELSE b

\* CircuitBreaker._on_success
OnSuccess(b) ==
    IF b.state = HALF_OPEN
    THEN IF b.success_count + 1 >= b.success_threshold
         THEN [b EXCEPT !.state = CLOSED, !.failure_count = 0, !.success_count = 0]
         ELSE [b EXCEPT !.success_count = @ + 1]
    ELSE IF b.state = CLOSED
    THEN IF b.failure_count > 0 THEN [b EXCEPT !.failure_count = 0] ELSE b
    ELSE b

\* CircuitBreaker._on_failure without line 148, the reset of success_count
OnFailure_KeepsSuccesses(b, t) ==
    LET c == [b EXCEPT !.failure_count = @ + 1, !.last_failure_time = At(t)]
    IN IF c.state = HALF_OPEN
       THEN [c EXCEPT !.state = OPEN]
       ELSE IF c.failure_count >= c.failure_threshold
       THEN [c EXCEPT !.state = OPEN]
       ELSE c

\* CircuitBreaker._on_failure with > for >= in the threshold test of line 150
OnFailure_OpensLate(b, t) ==
    LET c == [b EXCEPT !.failure_count = @ + 1, !.last_failure_time = At(t)]
    IN IF c.state = HALF_OPEN
       THEN [c EXCEPT !.state = OPEN, !.success_count = 0]
       ELSE IF c.failure_count > c.failure_threshold
       THEN [c EXCEPT !.state = OPEN]
       ELSE c

\* CircuitBreaker._on_failure
OnFailure(b, t) ==
    LET c == [b EXCEPT !.failure_count = @ + 1, !.last_failure_time = At(t)]
    IN IF c.state = HALF_OPEN
       THEN [c EXCEPT !.state = OPEN, !.success_count = 0]
       ELSE IF c.failure_count >= c.failure_threshold
       THEN [c EXCEPT !.state = OPEN]
       ELSE c

\* a reset that forgets to clear last_failure_time and success_count
ResetBreaker_KeepsHistory(b) ==
    [b EXCEPT !.state = CLOSED, !.failure_count = 0]

\* CircuitBreaker.reset
ResetBreaker(b) ==
    [b EXCEPT !.state = CLOSED, !.failure_count = 0, !.success_count = 0,
              !.last_failure_time = NoTime]

\* a call that reports the failure that opened the breaker as CircuitOpenError
Completion_RaisesOpen(b, f, t) ==
    IF "exc" \in DOMAIN f
    THEN LET c == OnFailure(b, t)
         IN [b |-> c, n |-> 1,
             out |-> IF c.state = OPEN THEN [exc |-> "CircuitOpenError"] ELSE f]
    ELSE [b |-> OnSuccess(b), n |-> 1, out |-> f]

\* call, lines 98-105, for an admitted call whose wrapped function did f (it
\* returned f.ret or raised f.exc, an Exception) at time t: func is invoked
\* once, the breaker is updated, and the result is returned or the exception
\* re-raised by the bare raise
Completion(b, f, t) ==
    IF "exc" \in DOMAIN f
    THEN [b |-> OnFailure(b, t), n |-> 1, out |-> f]
    ELSE [b |-> OnSuccess(b), n |-> 1, out |-> f]

-----------------------------------------------------------------------------
(* CacheService.generate_key, lines 147-164.  A parameter dict is a        *)
(* sequence of <<name, value>> pairs with distinct names, in insertion     *)
(* order; a value has a Python type and the text str() gives for it.       *)

ToolNames == {"tool1", "tool2"}

\* parameter names in the order sort_keys puts them
ParamNames == <<"a", "b">>

\* 1, 2, "1" and Decimal("1")
ParamValues ==
    {[type |-> "int", text |-> "1"], [type |-> "int", text |-> "2"],
     [type |-> "str", text |-> "1"], [type |-> "Decimal", text |-> "1"]}

\* the dicts of the model
ParamDicts ==
    {p \in UNION {[1..n -> {<<ParamNames[i], v>> : i \in DOMAIN ParamNames, v \in ParamValues}] :
                    n \in 0..Len(ParamNames)} :
        \A i, j \in DOMAIN p : i # j => p[i][1] # p[j][1]}

\* dict equality: the same items, whatever the insertion order
Items(p) == {p[i] : i \in DOMAIN p}

\* json.dumps of one value with default=str: an int is written as a number,
\* a str as a string, and a value json cannot serialize as the string str()
\* gives for it
DumpValue(v) == IF v.type = "int" THEN v.text ELSE "\"" \o v.text \o "\""

\* json.dumps(params, sort_keys=True, default=str): the items in the order
\* of their names, from the i-th name on
RECURSIVE DumpItems(_, _, _)
DumpItems(p, i, first) ==
    IF i > Len(ParamNames) THEN ""
    ELSE IF \E x \in Items(p) : x[1] = ParamNames[i]
    THEN LET x == CHOOSE y \in Items(p) : y[1] = ParamNames[i]
         IN (IF first THEN "" ELSE ", ")
            \o "\"" \o x[1] \o "\": " \o DumpValue(x[2])
            \o DumpItems(p, i + 1, FALSE)
    ELSE DumpItems(p, i + 1, first)

JsonDumps(p) == "{" \o DumpItems(p, 1, TRUE) \o "}"

\* hashlib.sha256(text.encode()).hexdigest(), taken to be free of
\* collisions: the digest of a text stands for that text alone
Sha256Hex(text) == "sha256(" \o text \o ")"

\* CacheService.generate_key
generate_key(tool_name, params) == tool_name \o ":" \o Sha256Hex(JsonDumps(params))

-----------------------------------------------------------------------------
(* ToolBase.__call__, in both versions of the repository:                  *)
(* agentfarm_mcp/tools/base.py and mcp/mcp_server/tools/base.py            *)

Impls == {"agentfarm_mcp", "mcp_server"}

\* the raw parameters of a request: two that pass the tool's schema, one that
\* fails it
Params == {"p1", "p2", "bad"}
ValidParams == {"p1", "p2"}

\* what the work function (execute) returns; a work function may return None
Results == {"v1", None}

\* exceptions a work function may raise: subclasses of MCPException
\* (utils/exceptions.py), builtins the last except clause of
\* agentfarm_mcp/tools/base.py names, and other subclasses of Exception
Exceptions == {"DatabaseError", "SimulationNotFoundError", "ValidationError",
               "RuntimeError", "ZeroDivisionError"}

\* utils/exceptions.py: the subclasses of DatabaseError
IsDatabaseError(e) ==
    e \in {"DatabaseError", "QueryTimeoutError", "SimulationNotFoundError",
           "ExperimentNotFoundError", "AgentNotFoundError", "ConnectionError",
           "QueryExecutionError"}

\* utils/exceptions.py: the subclasses of MCPException
IsMCPException(e) ==
    \/ IsDatabaseError(e)
    \/ e \in {"MCPException", "ValidationError", "ResultTooLargeError", "CacheError",
              "ToolNotFoundError", "ConfigurationError"}

\* agentfarm_mcp/tools/base.py line 153
NamedBuiltins == {"ValueError", "TypeError", "AttributeError", "KeyError", "RuntimeError"}

\* Optional values: <<>> for None
Nothing == <<>>
Some(x) == <<x>>

\* ToolBase._get_cache_key / CacheService.generate_key for the one tool of
\* the model: one key per validated parameter set
GenerateKey(params) == IF params = "p1" THEN "k1" ELSE "k2"

\* ToolBase._format_response
FormatResponse(data, from_cache, execution_time_ms, t) ==
    [success |-> TRUE,
     data |-> data,
     metadata |-> [tool |-> "tool", timestamp |-> t, from_cache |-> from_cache,
                   execution_time_ms |-> execution_time_ms],
     error |-> Nothing]

\* ToolBase._format_error
FormatError(error_type, message, t) ==
    [success |-> FALSE,
     data |-> None,
     metadata |-> [tool |-> "tool", timestamp |-> t],
     error |-> Some([type |-> error_type, message |-> message])]

\* what __call__ hands its caller: an envelope, or the exception it lets through
Envelope(e) == [exc |-> "none", env |-> Some(e)]
Propagates(e) == [exc |-> e, env |-> Nothing]

\* except clauses that report the builtins of line 153 as ValidationError
Handle_BuiltinsAsValidation(version, e, t) ==
    IF e = "PydanticValidationError" THEN Envelope(FormatError("ValidationError", e, t))
    ELSE IF IsDatabaseError(e) THEN Envelope(FormatError("DatabaseError", e, t))
    ELSE IF IsMCPException(e) THEN Envelope(FormatError(e, e, t))
    ELSE IF e \in NamedBuiltins THEN Envelope(FormatError("ValidationError", e, t))
    ELSE IF version = "mcp_server" THEN Envelope(FormatError("UnknownError", e, t))
    ELSE Propagates(e)

\* the except clauses of __call__: agentfarm_mcp/tools/base.py lines 141-155
\* and mcp/mcp_server/tools/base.py lines 111-127
Handle(version, e, t) ==
    IF e = "PydanticValidationError" THEN Envelope(FormatError("ValidationError", e, t))
    ELSE IF IsDatabaseError(e) THEN Envelope(FormatError("DatabaseError", e, t))
    ELSE IF IsMCPException(e) THEN Envelope(FormatError(e, e, t))
    ELSE IF version = "mcp_server" \/ e \in NamedBuiltins
    THEN Envelope(FormatError("UnknownError", e, t))
    ELSE Propagates(e)

\* ToolBase.__call__ after validation, lines 116-139, on the cache state st at
\* time t, with a work function that takes d ticks and does what work says:
\* [ret |-> value] returns value, [exc |-> e] raises e.  looked, ran, stored:
\* cache.get was called, the work function was invoked, cache.set was called.
CachedExecute(version, st, params, work, t, d) ==
    LET cache_key == GenerateKey(params)
        got == CacheGet(st, cache_key, t)
    IN IF got.val # None
       THEN [st |-> got.st, looked |-> TRUE, ran |-> FALSE, stored |-> FALSE,
             out |-> Envelope(FormatResponse(got.val, TRUE, 0, t))]
       ELSE IF "exc" \in DOMAIN work
       THEN [st |-> got.st, looked |-> TRUE, ran |-> TRUE, stored |-> FALSE,
             out |-> Handle(version, work.exc, t + d)]
       ELSE LET put == CacheSet(got.st, cache_key, work.ret, t + d)
            IN IF put.exc # "none"
               THEN [st |-> put.st, looked |-> TRUE, ran |-> TRUE, stored |-> TRUE,
                     out |-> Handle(version, put.exc, t + d)]
               ELSE [st |-> put.st, looked |-> TRUE, ran |-> TRUE, stored |-> TRUE,
                     out |-> Envelope(FormatResponse(work.ret, FALSE, d, t + d))]

\* a __call__ that looks the raw parameters up in the cache before it
\* validates them
ToolCall_LooksUpFirst(version, st, params, work, t, d) ==
    IF params \notin ValidParams
    THEN [st |-> CacheGet(st, GenerateKey(params), t).st,
          looked |-> TRUE, ran |-> FALSE, stored |-> FALSE,
          out |-> Handle(version, "PydanticValidationError", t)]
    ELSE CachedExecute(version, st, params, work, t, d)

\* ToolBase.__call__: the parameters are validated first, line 114, and a
\* validation error is handled at lines 141-143
ToolCall(version, st, params, work, t, d) ==
    IF params \notin ValidParams
    THEN [st |-> st, looked |-> FALSE, ran |-> FALSE, stored |-> FALSE,
          out |-> Handle(version, "PydanticValidationError", t)]
    ELSE CachedExecute(version, st, params, work, t, d)

\* what a work function may do
Works == [ret : Results] \cup [exc : Exceptions]

-----------------------------------------------------------------------------
(* RedisCacheService (agentfarm_mcp/services/redis_cache_service.py).  A   *)
(* state rs is a record of the object's fields and of store, the keys the  *)
(* Redis server holds: each with its serialized value and, when it was set *)
(* with SETEX, the time it expires.  Every command sent to the server      *)
(* gets a reply: "ok", or the redis.ConnectionError or redis.TimeoutError  *)
(* the client raises.                                                      *)

Replies == {"ok", "redis.ConnectionError", "redis.TimeoutError"}

\* json.dumps(value, default=str) and json.loads for the results of the model
Serialize(value) == IF value = None THEN "null" ELSE "\"" \o value \o "\""

Deserialize(text) == CHOOSE value \in Results \cup Values : Serialize(value) = text

\* RedisCacheService._make_key with the default key_prefix
MakeKey(key) == "mcp:" \o key

\* the server holds the key at time t: it is stored and has not expired
Live(store, name, t) ==
    /\ name \in DOMAIN store
    /\ store[name].exp = NoTime \/ t < TimeOf(store[name].exp)

\* RedisCacheService.get without its except clause
RedisGet_NoExcept(rs, key, t, reply) ==
    IF ~rs.enabled \/ rs.fallback_mode
    THEN Returns([rs EXCEPT !.misses = @ + 1], None)
    ELSE IF reply # "ok" THEN Raises(rs, reply)
    ELSE IF ~Live(rs.store, MakeKey(key), t)
    THEN Returns([rs EXCEPT !.misses = @ + 1], None)
    ELSE Returns([rs EXCEPT !.hits = @ + 1], Deserialize(rs.store[MakeKey(key)].v))

\* RedisCacheService.get, lines 112-133
RedisGet(rs, key, t, reply) ==
    IF ~rs.enabled \/ rs.fallback_mode
    THEN Returns([rs EXCEPT !.misses = @ + 1], None)
    ELSE IF reply # "ok"
    THEN Returns([rs EXCEPT !.misses = @ + 1], None)
    ELSE IF ~Live(rs.store, MakeKey(key), t)
    THEN Returns([rs EXCEPT !.misses = @ + 1], None)
    ELSE Returns([rs EXCEPT !.hits = @ + 1], Deserialize(rs.store[MakeKey(key)].v))

\* RedisCacheService.set, lines 149-167, with the default ttl argument
RedisSet(rs, key, value, t, reply) ==
    IF ~rs.enabled \/ rs.fallback_mode THEN Returns(rs, FALSE)
    ELSE IF reply # "ok" THEN Returns(rs, FALSE)
    ELSE LET entry == [v |-> Serialize(value),
                       exp |-> IF rs.ttl_seconds > 0 THEN At(t + rs.ttl_seconds)
                               ELSE NoTime]
         IN Returns([rs EXCEPT !.store = SetTimestamp(rs.store, MakeKey(key), entry)],
                    TRUE)

\* RedisCacheService.clear, lines 203-223
RedisClear(rs, reply) ==
    IF ~rs.enabled \/ rs.fallback_mode THEN Returns(rs, FALSE)
    ELSE IF reply # "ok" THEN Returns(rs, FALSE)
    ELSE Returns([rs EXCEPT !.store = <<>>, !.hits = 0, !.misses = 0], TRUE)

\* RedisCacheService.__init__ and _initialize_redis: the ping is answered by
\* reply
NewRedis(on, ttl, reply) ==
    [enabled |-> on, fallback_mode |-> on /\ reply # "ok", ttl_seconds |-> ttl,
     hits |-> 0, misses |-> 0, store |-> <<>>]

\* ToolBase.__call__ after validation, lines 116-139, over a
\* RedisCacheService: the server answers the get with getReply and the set
\* with setReply
RedisCachedExecute(version, rs, params, work, t, d, getReply, setReply) ==
    LET cache_key == GenerateKey(params)
        got == RedisGet(rs, cache_key, t, getReply)
    IN IF got.exc # "none"
       THEN [st |-> got.st, looked |-> TRUE, ran |-> FALSE, stored |-> FALSE,
             out |-> Handle(version, got.exc, t)]
       ELSE IF got.val # None
       THEN [st |-> got.st, looked |-> TRUE, ran |-> FALSE, stored |-> FALSE,
             out |-> Envelope(FormatResponse(got.val, TRUE, 0, t))]
       ELSE IF "exc" \in DOMAIN work
       THEN [st |-> got.st, looked |-> TRUE, ran |-> TRUE, stored |-> FALSE,
             out |-> Handle(version, work.exc, t + d)]
       ELSE LET put == RedisSet(got.st, cache_key, work.ret, t + d, setReply)
            IN [st |-> put.st, looked |-> TRUE, ran |-> TRUE, stored |-> TRUE,
                out |-> Envelope(FormatResponse(work.ret, FALSE, d, t + d))]

\* ToolBase.__call__ over a RedisCacheService
RedisToolCall(version, rs, params, work, t, d, getReply, setReply) ==
    IF params \notin ValidParams
    THEN [st |-> rs, looked |-> FALSE, ran |-> FALSE, stored |-> FALSE,
          out |-> Handle(version, "PydanticValidationError", t)]
    ELSE RedisCachedExecute(version, rs, params, work, t, d, getReply, setReply)

-----------------------------------------------------------------------------
(* The caller's view *)

\* the stored keys in the order of their last use (a set or a get that hit),
\* least recently used first: keys that left the cache are dropped, and the
\* key the call used, if it is stored afterwards, becomes the most recent
Touch(order, stored, used) ==
    LET kept == SelectSeq(order, LAMBDA x : x \in stored /\ x \notin used)
    IN IF used \subseteq stored /\ used # {}
       THEN Append(kept, CHOOSE x \in used : TRUE)
       ELSE kept

\* the time of the last set call on each stored key
Stamp(times, stored, used, t) ==
    [x \in stored |-> IF x \in used \/ x \notin DOMAIN times THEN t ELSE times[x]]

\* what a call of operation op on key did, as its caller sees it: the value
\* passed or returned, the exception raised, and the keys that left the cache
Outcome(op, key, value, exception, st) ==
    [op |-> op, key |-> key, val |-> value, exc |-> exception,
     gone |-> KeysOf(cache) \ KeysOf(st.cache)]

\* the object's fields take the values of st
Becomes(st) ==
    /\ cache' = st.cache
    /\ timestamps' = st.timestamps
    /\ hits' = st.hits
    /\ misses' = st.misses
    /\ UNCHANGED <<enabled, max_size, ttl_seconds>>

\* what no operation of the cache touches, the clock apart
NotCache == <<breakerVars, toolVars, threadVars, redisVars, keyVars>>

-----------------------------------------------------------------------------
(* Operations of a single caller on one CacheService *)

Get(key) ==
    /\ gets < MaxGets
    /\ LET r == CacheGet(CacheState, key, now)
       IN /\ Becomes(r.st)
          /\ ret' = Outcome("get", key, r.val, r.exc, r.st)
          /\ lru' = Touch(lru, KeysOf(r.st.cache),
                          IF HasKey(cache, key) THEN {key} ELSE {})
          /\ setAt' = Stamp(setAt, KeysOf(r.st.cache), {}, now)
    /\ gets' = gets + 1
    /\ UNCHANGED <<now, NotCache>>

Set(key, value) ==
    /\ LET r == CacheSet(CacheState, key, value, now)
       IN /\ Becomes(r.st)
          /\ ret' = Outcome("set", key, value, r.exc, r.st)
          /\ lru' = Touch(lru, KeysOf(r.st.cache), {key})
          /\ setAt' = Stamp(setAt, KeysOf(r.st.cache), {key}, now)
    /\ UNCHANGED gets
    /\ UNCHANGED <<now, NotCache>>

EvictKey(key) ==
    /\ LET st == Evict(CacheState, key)
       IN /\ Becomes(st)
          /\ lru' = Touch(lru, KeysOf(st.cache), {})
          /\ setAt' = Stamp(setAt, KeysOf(st.cache), {}, now)
          /\ ret' = Outcome("evict", key, None, "none", st)
    /\ UNCHANGED gets
    /\ UNCHANGED <<now, NotCache>>

Clear ==
    /\ LET r == CacheClear(CacheState)
       IN /\ Becomes(r.st)
          /\ lru' = Touch(lru, KeysOf(r.st.cache), {})
          /\ setAt' = Stamp(setAt, KeysOf(r.st.cache), {}, now)
          /\ ret' = Outcome("clear", None, r.val, r.exc, r.st)
    /\ gets' = 0
    /\ UNCHANGED <<now, NotCache>>

\* time passes between two calls
Tick ==
    /\ now < MaxTime
    /\ now' = now + 1
    /\ ret' = Outcome("tick", None, None, "none", CacheState)
    /\ UNCHANGED <<enabled, max_size, ttl_seconds, cache, timestamps, hits, misses,
                   gets, lru, setAt>>
    /\ UNCHANGED NotCache

\* CacheService.__init__ for a configuration CacheConfig accepts
InitCache ==
    /\ enabled \in BOOLEAN
    /\ max_size \in 0..MaxCap
    /\ ttl_seconds \in 0..MaxTtl
    /\ cache = <<>>
    /\ timestamps = <<>>
    /\ hits = 0
    /\ misses = 0
    /\ ret = [op |-> "init", key |-> None, val |-> None, exc |-> "none", gone |-> {}]
    /\ gets = 0
    /\ lru = <<>>
    /\ setAt = <<>>

\* a CacheService nobody uses
NoCache ==
    /\ enabled = FALSE
    /\ max_size = 0
    /\ ttl_seconds = 0
    /\ cache = <<>>
    /\ timestamps = <<>>
    /\ hits = 0
    /\ misses = 0
    /\ ret = [op |-> "init", key |-> None, val |-> None, exc |-> "none", gone |-> {}]
    /\ gets = 0
    /\ lru = <<>>
    /\ setAt = <<>>

\* the fields CircuitBreaker.__init__ sets, lines 59-62
NewBreaker ==
    /\ state = CLOSED
    /\ failure_count = 0
    /\ success_count = 0
    /\ last_failure_time = NoTime
    /\ pc = "idle"
    /\ ev = "init"
    /\ streak = 0
    /\ probes = 0
    /\ last = [from |-> CLOSED, ran |-> 0, func |-> Nothing, call |-> Nothing]

\* CircuitBreaker.__init__ with thresholds of 1 or more
InitBreaker ==
    /\ failure_threshold \in 1..MaxThreshold
    /\ timeout \in 0..MaxTimeout
    /\ success_threshold \in 1..MaxThreshold
    /\ NewBreaker

\* a CircuitBreaker nobody uses, with the default thresholds of lines 41-43
NoBreaker ==
    /\ failure_threshold = 5
    /\ timeout = 60
    /\ success_threshold = 2
    /\ NewBreaker

\* no __call__ has been made
NoResponse ==
    [params |-> None, looked |-> FALSE, ran |-> FALSE, stored |-> FALSE,
     exc |-> "none", env |-> Nothing]

\* no tool has been called
NoTool ==
    /\ impl = "agentfarm_mcp"
    /\ response = NoResponse

\* a tool deriving from either ToolBase, not called yet
InitTool ==
    /\ impl \in Impls
    /\ response = NoResponse

Threads == {"t1", "t2"}

\* a thread that is in no call and has made none
Idle ==
    [pc |-> "idle", op |-> None, key |-> None, val |-> None,
     n |-> 0, victim |-> None, back |-> None, res |-> Nothing]

\* no thread has called anything
NoThreads ==
    /\ th = [t \in Threads |-> Idle]
    /\ written = {}
    /\ started = 0
    /\ clears = 0
    /\ mixed = FALSE
    /\ cohort = [k |-> 0, clean |-> TRUE, half |-> 0]

\* generate_key has not been called
NoKeys == keygen = <<>>

\* the caller's view of a RedisCacheService: the number of get calls since
\* construction or the last call of clear, and what the server answered to
\* the get and to the set of the last request
NoWire == [gets |-> 0, get |-> "ok", set |-> "ok"]

\* no RedisCacheService has been constructed
NoRedis ==
    /\ redis = NewRedis(FALSE, 0, "ok")
    /\ wire = NoWire

InitC ==
    /\ now = 0
    /\ InitCache
    /\ NoBreaker
    /\ NoTool
    /\ NoThreads
    /\ NoRedis
    /\ NoKeys

NextC ==
    \/ \E key \in Keys : Get(key)
    \/ \E key \in Keys, value \in Values : Set(key, value)
    \/ \E key \in Keys : EvictKey(key)
    \/ Clear
    \/ Tick

SpecCache == InitC /\ [][NextC]_vars

-----------------------------------------------------------------------------
(* Operations of a single caller on one CircuitBreaker.  A call is two     *)
(* steps: the breaker admits or rejects it (lines 85-96), and if admitted  *)
(* the wrapped function runs, while time may pass, and returns or raises   *)
(* (lines 98-105).                                                         *)

\* the object's fields take the values of b
BreakerBecomes(b) ==
    /\ state' = b.state
    /\ failure_count' = b.failure_count
    /\ success_count' = b.success_count
    /\ last_failure_time' = b.last_failure_time
    /\ UNCHANGED <<failure_threshold, timeout, success_threshold>>

\* what no operation of the breaker touches, the clock apart
NotBreaker == <<cacheVars, toolVars, threadVars, redisVars, keyVars>>

\* call, up to the wrapped function
Call ==
    /\ pc = "idle"
    /\ LET a == Admission(BreakerState, now)
       IN /\ BreakerBecomes(a.b)
          /\ pc' = IF a.exc = "none" THEN "running" ELSE "idle"
          /\ ev' = IF a.exc = "none" THEN "admit" ELSE a.exc
          /\ probes' = IF state = OPEN /\ a.b.state = HALF_OPEN THEN 0 ELSE probes
          /\ last' = [from |-> state, ran |-> 0, func |-> Nothing,
                      call |-> IF a.exc = "none" THEN Nothing ELSE Some([exc |-> a.exc])]
    /\ UNCHANGED <<streak, now, NotBreaker>>

\* the wrapped function returns: result = func(); self._on_success()
FuncReturns ==
    /\ pc = "running"
    /\ \E value \in Results :
          LET r == Completion(BreakerState, [ret |-> value], now)
          IN /\ BreakerBecomes(r.b)
             /\ last' = [last EXCEPT !.ran = @ + r.n, !.func = Some([ret |-> value]),
                                     !.call = Some(r.out)]
    /\ pc' = "idle"
    /\ ev' = "return"
    /\ streak' = 0
    /\ probes' = IF state = HALF_OPEN THEN probes + 1 ELSE probes
    /\ UNCHANGED <<now, NotBreaker>>

\* the wrapped function raises: self._on_failure(); raise
FuncRaises ==
    /\ pc = "running"
    /\ failure_count < MaxFailures
    /\ \E e \in Exceptions :
          LET r == Completion(BreakerState, [exc |-> e], now)
          IN /\ BreakerBecomes(r.b)
             /\ last' = [last EXCEPT !.ran = @ + r.n, !.func = Some([exc |-> e]),
                                     !.call = Some(r.out)]
    /\ pc' = "idle"
    /\ ev' = "raise"
    /\ streak' = streak + 1
    /\ UNCHANGED <<probes, now, NotBreaker>>

Reset ==
    /\ pc = "idle"
    /\ BreakerBecomes(ResetBreaker(BreakerState))
    /\ ev' = "reset"
    /\ streak' = 0
    /\ probes' = 0
    /\ last' = [from |-> state, ran |-> 0, func |-> Nothing, call |-> Nothing]
    /\ UNCHANGED <<pc, now, NotBreaker>>

\* time passes, between calls or while the wrapped function runs
BreakerTick ==
    /\ now < MaxClock
    /\ now' = now + 1
    /\ ev' = "tick"
    /\ UNCHANGED <<failure_threshold, timeout, success_threshold, state,
                   failure_count, success_count, last_failure_time, pc, streak, probes,
                   last>>
    /\ UNCHANGED NotBreaker

InitB ==
    /\ now = 0
    /\ NoCache
    /\ InitBreaker
    /\ NoTool
    /\ NoThreads
    /\ NoRedis
    /\ NoKeys

NextB ==
    \/ Call
    \/ FuncReturns
    \/ FuncRaises
    \/ Reset
    \/ BreakerTick

SpecBreaker == InitB /\ [][NextB]_vars

\* The same caller with a dependency that recovers: the wrapped function may
\* raise only early enough for the recovery timeout to elapse on the clock of
\* the model afterwards, and succeeds on every later call.  Time keeps
\* advancing (up to MaxClock), calls keep arriving and every call the breaker
\* admits completes.
FuncRaisesEarly ==
    /\ now + timeout < MaxClock
    /\ FuncRaises

NextRecovery ==
    \/ Call
    \/ FuncReturns
    \/ FuncRaisesEarly
    \/ BreakerTick

SpecRecovery ==
    /\ InitB
    /\ [][NextRecovery]_vars
    /\ WF_vars(Call)
    /\ WF_vars(FuncReturns)
    /\ WF_vars(BreakerTick)

-----------------------------------------------------------------------------
(* Requests to one tool over one CacheService *)

\* tool(**params): the whole of ToolBase.__call__, the work function included;
\* a call that does not reach the work function takes no time, and what the
\* function would have done makes no difference to it
Execute(params, work, d) ==
    /\ hits + misses < MaxLookups
    /\ now + d <= MaxTime
    /\ \E r \in {ToolCall(impl, CacheState, params, work, now, d)} :
          /\ r.ran \/ (d = 0 /\ work = [ret |-> None])
          /\ Becomes(r.st)
          /\ response' = [params |-> params, looked |-> r.looked, ran |-> r.ran,
                           stored |-> r.stored, exc |-> r.out.exc, env |-> r.out.env]
    /\ now' = now + d
    /\ UNCHANGED <<impl, ret, gets, lru, setAt, breakerVars, threadVars, redisVars, keyVars>>

\* the cache is cleared between two requests
ToolClear ==
    /\ Becomes(CacheClear(CacheState).st)
    /\ response' = NoResponse
    /\ UNCHANGED <<now, impl, ret, gets, lru, setAt, breakerVars, threadVars, redisVars, keyVars>>

\* the cache is switched off between two requests, as the tests do:
\* cache_service.enabled = False
ToolDisable ==
    /\ enabled
    /\ enabled' = FALSE
    /\ UNCHANGED <<max_size, ttl_seconds, cache, timestamps, hits, misses>>
    /\ UNCHANGED <<now, impl, response, ret, gets, lru, setAt, breakerVars, threadVars, redisVars, keyVars>>

\* time passes between two requests
ToolTick ==
    /\ now < MaxTime
    /\ now' = now + 1
    /\ UNCHANGED <<cacheVars, breakerVars, toolVars, threadVars, redisVars, keyVars>>

\* the tool stores one entry per valid parameter set, so that larger caches
\* behave as one of max_size = Cardinality(ValidParams)
InitT ==
    /\ now = 0
    /\ InitCache
    /\ max_size <= Cardinality(ValidParams)
    /\ NoBreaker
    /\ InitTool
    /\ NoThreads
    /\ NoRedis
    /\ NoKeys

NextT ==
    \/ \E params \in Params, work \in Works, d \in 0..MaxWork : Execute(params, work, d)
    \/ ToolClear
    \/ ToolDisable
    \/ ToolTick

SpecTool == InitT /\ [][NextT]_vars

-----------------------------------------------------------------------------
(* Requests to one tool over one RedisCacheService (server.py lines 65-76, *)
(* cache backend "redis")                                                  *)

\* tool(**params) over the Redis cache: the server answers the get with
\* getReply and the set with setReply; a command that is not sent has the
\* reply "ok"
RedisExecute(params, work, d, getReply, setReply) ==
    /\ redis.hits + redis.misses < MaxLookups
    /\ now + d <= MaxTime
    /\ (params \in ValidParams /\ redis.enabled /\ ~redis.fallback_mode)
         \/ (getReply = "ok" /\ setReply = "ok")
    /\ \E r \in {RedisToolCall(impl, redis, params, work, now, d, getReply, setReply)} :
          /\ r.ran \/ (d = 0 /\ work = [ret |-> None])
          /\ r.stored \/ setReply = "ok"
          /\ redis' = r.st
          /\ wire' = [gets |-> IF r.looked THEN wire.gets + 1 ELSE wire.gets,
                       get |-> getReply, set |-> setReply]
          /\ response' = [params |-> params, looked |-> r.looked, ran |-> r.ran,
                           stored |-> r.stored, exc |-> r.out.exc, env |-> r.out.env]
    /\ now' = now + d
    /\ UNCHANGED <<impl, cacheVars, breakerVars, threadVars, keyVars>>

\* cache.clear() between two requests
RedisClearCall(reply) ==
    /\ (redis.enabled /\ ~redis.fallback_mode) \/ reply = "ok"
    /\ redis' = RedisClear(redis, reply).st
    /\ wire' = NoWire
    /\ response' = NoResponse
    /\ UNCHANGED <<now, impl, cacheVars, breakerVars, threadVars, keyVars>>

\* time passes between two requests
RedisTick ==
    /\ now < MaxTime
    /\ now' = now + 1
    /\ UNCHANGED <<cacheVars, breakerVars, toolVars, threadVars, redisVars, keyVars>>

\* what the work function of a request over the Redis cache may do: return,
\* or raise an exception that __call__ reports
RedisWorks == [ret : Results] \cup [exc : {"DatabaseError"}]

\* RedisCacheService(config) with a server that answers the ping of
\* _initialize_redis or does not
InitRedis ==
    /\ now = 0
    /\ NoCache
    /\ NoBreaker
    /\ NoTool
    /\ NoThreads
    /\ \E on \in BOOLEAN, ttl \in 0..MaxTtl, reply \in Replies :
          /\ on \/ reply = "ok"
          /\ redis = NewRedis(on, ttl, reply)
    /\ wire = NoWire
    /\ NoKeys

NextRedis ==
    \/ \E params \in Params, work \in RedisWorks, d \in 0..MaxWork, getReply, setReply \in Replies :
          RedisExecute(params, work, d, getReply, setReply)
    \/ \E reply \in Replies : RedisClearCall(reply)
    \/ RedisTick

SpecRedis == InitRedis /\ [][NextRedis]_vars

-----------------------------------------------------------------------------
(* Requests to one tool whose work function reaches the backend through    *)
(* one CircuitBreaker: execute returns breaker.call(func)                  *)

\* CircuitBreaker.call, lines 85-105, at time t with a wrapped function that
\* does f: the call is rejected with CircuitOpenError (n = 0, func is not
\* invoked) or admitted and completed
BreakerCall(b, f, t) ==
    LET a == Admission(b, t)
    IN IF a.exc # "none"
       THEN [b |-> a.b, n |-> 0, out |-> [exc |-> a.exc]]
       ELSE Completion(a.b, f, t)

\* what the backend function behind the breaker may do
GuardedFuncs == [ret : {"v1"}] \cup [exc : {"DatabaseError"}]

\* tool(**params): ToolBase.__call__ with the work function
\* breaker.call(func); the breaker is called only if the work function is
\* invoked
GuardedExecute(params, f) ==
    /\ pc = "idle"
    /\ hits + misses < MaxLookups
    /\ \E c \in {BreakerCall(BreakerState, f, now)} :
       \E r \in {ToolCall(impl, CacheState, params, c.out, now, 0)} :
          /\ r.ran \/ f = [ret |-> "v1"]
          /\ r.ran /\ c.n = 1 /\ "exc" \in DOMAIN f => failure_count < MaxFailures
          /\ Becomes(r.st)
          /\ response' = [params |-> params, looked |-> r.looked, ran |-> r.ran,
                           stored |-> r.stored, exc |-> r.out.exc, env |-> r.out.env]
          /\ IF r.ran
             THEN /\ BreakerBecomes(c.b)
                  /\ ev' = IF c.n = 0 THEN c.out.exc
                           ELSE IF "exc" \in DOMAIN f THEN "raise" ELSE "return"
                  /\ streak' = IF c.n = 0 THEN streak
                               ELSE IF "exc" \in DOMAIN f THEN streak + 1 ELSE 0
                  /\ probes' = IF state = OPEN /\ c.n = 1 THEN IF "exc" \in DOMAIN f THEN 0 ELSE 1
                               ELSE IF state = HALF_OPEN /\ "ret" \in DOMAIN f THEN probes + 1
                               ELSE probes
                  /\ last' = [from |-> state, ran |-> c.n,
                              func |-> IF c.n = 0 THEN Nothing ELSE Some(f),
                              call |-> Some(c.out)]
             ELSE /\ ev' = "skip"
                  /\ UNCHANGED <<failure_threshold, timeout, success_threshold, state,
                                 failure_count, success_count, last_failure_time,
                                 streak, probes, last>>
    /\ UNCHANGED <<now, pc, impl, ret, gets, lru, setAt, threadVars, redisVars, keyVars>>

\* a tool over an enabled or disabled CacheService that can hold an entry,
\* and a new CircuitBreaker
InitGuarded ==
    /\ now = 0
    /\ InitCache
    /\ max_size = 1
    /\ InitBreaker
    /\ InitTool
    /\ NoThreads
    /\ NoRedis
    /\ NoKeys

NextGuarded ==
    \/ \E params \in Params, f \in GuardedFuncs : GuardedExecute(params, f)
    \/ BreakerTick

SpecGuarded == InitGuarded /\ [][NextGuarded]_vars

-----------------------------------------------------------------------------
(* Two calls of CacheService.generate_key *)

\* generate_key(tool_name, params), as the i-th call
GenerateKeyCall(i) ==
    /\ keygen' = [keygen EXCEPT ![i].key =
                     Some(generate_key(keygen[i].tool_name, keygen[i].params))]
    /\ UNCHANGED <<now, cacheVars, breakerVars, toolVars, threadVars, redisVars>>

\* the arguments of the two calls
InitKeys ==
    /\ now = 0
    /\ NoCache
    /\ NoBreaker
    /\ NoTool
    /\ NoThreads
    /\ NoRedis
    /\ keygen \in [1..2 -> [tool_name : ToolNames, params : ParamDicts, key : {Nothing}]]

NextKeys == \E i \in 1..2 : GenerateKeyCall(i)

SpecKeys == InitKeys /\ [][NextKeys]_vars

-----------------------------------------------------------------------------
(* Threads calling get, set and clear on one CacheService.  The class has  *)
(* no lock, so the threads interleave between the statements of the        *)
(* methods, and between the read and the write of an augmented assignment  *)
(* (self._hits += 1).  A statement of the model is one dictionary           *)
(* operation or one attribute access; pc names the source line the thread  *)
(* is about to execute.                                                    *)

\* the thread goes on to the statement at line
Goto(st, r, line) == [st |-> st, r |-> [r EXCEPT !.pc = line]]

\* the call returns value
Done(st, r, value) ==
    [st |-> st, r |-> [r EXCEPT !.pc = "idle", !.res = Some([ret |-> value])]]

\* the call raises exception e
Fail(st, r, e) ==
    [st |-> st, r |-> [r EXCEPT !.pc = "idle", !.res = Some([exc |-> e])]]

\* the first statement of each method
FirstOf(op) == CASE op = "get" -> "get56" [] op = "set" -> "set91" [] op = "clear" -> "clear118"

\* one statement of CacheService.get, set, clear or _evict, executed at time
\* t by the thread whose position and local variables are r
ThreadStep(st, r, t) ==
    CASE r.pc = "get56" ->
           IF ~st.enabled THEN Done(st, r, None)
           ELSE IF ~HasKey(st.cache, r.key) THEN Goto(st, r, "get57") ELSE Goto(st, r, "get62")
      [] r.pc = "get57" -> Goto(st, [r EXCEPT !.n = st.misses], "get57w")
      [] r.pc = "get57w" -> Done([st EXCEPT !.misses = r.n + 1], r, None)
      [] r.pc = "get62" ->
           IF st.ttl_seconds > 0
           THEN IF r.key \notin DOMAIN st.timestamps THEN Fail(st, r, "KeyError")
                ELSE IF t - st.timestamps[r.key] > st.ttl_seconds
                THEN Goto(st, [r EXCEPT !.victim = r.key, !.back = "get66"], "evict108")
                ELSE Goto(st, r, "get71")
           ELSE Goto(st, r, "get71")
      [] r.pc = "get66" -> Goto(st, [r EXCEPT !.n = st.misses], "get66w")
      [] r.pc = "get66w" -> Done([st EXCEPT !.misses = r.n + 1], r, None)
      [] r.pc = "get71" ->
           IF ~HasKey(st.cache, r.key) THEN Fail(st, r, "KeyError")
           ELSE Goto([st EXCEPT !.cache = MoveToEnd(st.cache, r.key)], r, "get72")
      [] r.pc = "get72" -> Goto(st, [r EXCEPT !.n = st.hits], "get72w")
      [] r.pc = "get72w" -> Goto([st EXCEPT !.hits = r.n + 1], r, "get75")
      [] r.pc = "get75" ->
           IF ~HasKey(st.cache, r.key) THEN Fail(st, r, "KeyError")
           ELSE Done(st, r, ValueOf(st.cache, r.key))
      [] r.pc = "set91" ->
           IF ~st.enabled THEN Done(st, r, None)
           ELSE IF Len(st.cache) >= st.max_size /\ ~HasKey(st.cache, r.key)
           THEN Goto(st, r, "set92") ELSE Goto(st, r, "set96")
      [] r.pc = "set92" ->
           IF st.cache = <<>> THEN Fail(st, r, "StopIteration")
           ELSE Goto(st, [r EXCEPT !.victim = Head(st.cache).k, !.back = "set96"], "evict108")
      [] r.pc = "set96" ->
           Goto([st EXCEPT !.cache = SetItem(st.cache, r.key, r.val)], r, "set97")
      [] r.pc = "set97" ->
           Goto([st EXCEPT !.timestamps = SetTimestamp(st.timestamps, r.key, t)], r, "set98")
      [] r.pc = "set98" ->
           IF ~HasKey(st.cache, r.key) THEN Fail(st, r, "KeyError")
           ELSE Done([st EXCEPT !.cache = MoveToEnd(st.cache, r.key)], r, None)
      [] r.pc = "evict108" ->
           IF HasKey(st.cache, r.victim) THEN Goto(st, r, "evict109") ELSE Goto(st, r, r.back)
      [] r.pc = "evict109" ->
           IF ~HasKey(st.cache, r.victim) THEN Fail(st, r, "KeyError")
           ELSE Goto([st EXCEPT !.cache = DelKey(st.cache, r.victim)], r, "evict110")
      [] r.pc = "evict110" ->
           IF r.victim \notin DOMAIN st.timestamps THEN Fail(st, r, "KeyError")
           ELSE Goto([st EXCEPT !.timestamps = DelTimestamp(st.timestamps, r.victim)],
                     r, r.back)
      [] r.pc = "clear118" -> Goto([st EXCEPT !.cache = <<>>], r, "clear119")
      [] r.pc = "clear119" -> Goto([st EXCEPT !.timestamps = <<>>], r, "clear120")
      [] r.pc = "clear120" -> Goto([st EXCEPT !.hits = 0], r, "clear121")
      [] r.pc = "clear121" -> Done([st EXCEPT !.misses = 0], r, None)

ThreadKeys == {"k1", "k2"}

\* the calls a thread may start: get(key), set(key, value) and clear()
ThreadCalls ==
    [op : {"get"}, key : ThreadKeys, val : {None}]
      \cup [op : {"set"}, key : ThreadKeys, val : Values]
      \cup [op : {"clear"}, key : {None}, val : {None}]

\* a thread in no call starts call c (the threads are alike: the call goes to
\* the first one that is free)
Begin(t, c) ==
    /\ th[t].pc = "idle"
    /\ \A u \in Threads : th[u].pc = "idle" => (t = "t1" \/ u # "t1")
    /\ started < MaxCalls
    /\ th' = [th EXCEPT ![t] = [Idle EXCEPT !.pc = FirstOf(c.op), !.op = c.op,
                                            !.key = c.key, !.val = c.val]]
    /\ written' = IF c.op = "set" THEN written \cup {<<c.key, c.val>>} ELSE written
    /\ started' = started + 1
    /\ clears' = IF c.op = "clear" THEN clears + 1 ELSE clears
    /\ mixed' = (mixed \/ (c.op # "clear" /\ \E u \in Threads \ {t} :
                                 th[u].pc # "idle" /\ th[u].op # "clear"))
    /\ UNCHANGED <<now, cohort, cacheVars, breakerVars, toolVars, redisVars, keyVars>>

\* a thread in a call executes its next statement; gets counts the get calls
\* that have completed
Step(t) ==
    /\ th[t].pc # "idle"
    /\ LET s == ThreadStep(CacheState, th[t], now)
       IN /\ Becomes(s.st)
          /\ th' = [th EXCEPT ![t] = s.r]
          /\ gets' = IF s.r.op = "get" /\ s.r.pc = "idle" THEN gets + 1 ELSE gets
    /\ UNCHANGED <<now, ret, lru, setAt, written, started, clears, mixed, cohort,
                   breakerVars, toolVars, redisVars, keyVars>>

\* time passes
ThreadTick ==
    /\ now < MaxTime
    /\ now' = now + 1
    /\ UNCHANGED <<cacheVars, breakerVars, toolVars, threadVars, redisVars, keyVars>>

\* an enabled CacheService of max_size >= 1, shared by the threads
InitThreads ==
    /\ now = 0
    /\ InitCache
    /\ enabled
    /\ max_size >= 1
    /\ NoBreaker
    /\ NoTool
    /\ NoThreads
    /\ NoRedis
    /\ NoKeys

NextThreads ==
    \/ \E t \in Threads, c \in ThreadCalls : Begin(t, c)
    \/ \E t \in Threads : Step(t)
    \/ ThreadTick

SpecThreads == InitThreads /\ [][NextThreads]_vars

-----------------------------------------------------------------------------
(* Threads calling call and reset on one CircuitBreaker.  The class has no *)
(* lock either: the threads interleave between the statements of call,     *)
(* _on_success, _on_failure and reset, and between the read and the write  *)
(* of self.failure_count += 1 and self.success_count += 1.                 *)

\* one statement of CircuitBreaker.call, _on_success, _on_failure or reset,
\* executed at time t by the thread whose position and local variables are
\* r; r.val is what the wrapped function of the call does
BreakerThreadStep(b, r, t) ==
    CASE r.pc = "call85" ->
           IF b.state = OPEN THEN Goto(b, r, "call87") ELSE Goto(b, r, "call100")
      [] r.pc = "call87" ->
           IF Truthy(b.last_failure_time) /\ t - TimeOf(b.last_failure_time) > b.timeout
           THEN Goto(b, r, "call89") ELSE Fail(b, r, "CircuitOpenError")
      [] r.pc = "call89" -> Goto([b EXCEPT !.state = HALF_OPEN], r, "call90")
      [] r.pc = "call90" -> Goto([b EXCEPT !.success_count = 0], r, "call100")
      [] r.pc = "call100" ->
           IF "exc" \in DOMAIN r.val THEN Goto(b, r, "fail133") ELSE Goto(b, r, "succ109")
      [] r.pc = "succ109" ->
           IF b.state = HALF_OPEN THEN Goto(b, r, "succ110")
           ELSE IF b.state = CLOSED THEN Goto(b, r, "succ127")
           ELSE Done(b, r, r.val.ret)
      [] r.pc = "succ110" -> Goto(b, [r EXCEPT !.n = b.success_count], "succ110w")
      [] r.pc = "succ110w" -> Goto([b EXCEPT !.success_count = r.n + 1], r, "succ118")
      [] r.pc = "succ118" ->
           IF b.success_count >= b.success_threshold
           THEN Goto(b, r, "succ121") ELSE Done(b, r, r.val.ret)
      [] r.pc = "succ121" -> Goto([b EXCEPT !.state = CLOSED], r, "succ122")
      [] r.pc = "succ122" -> Goto([b EXCEPT !.failure_count = 0], r, "succ123")
      [] r.pc = "succ123" -> Done([b EXCEPT !.success_count = 0], r, r.val.ret)
      [] r.pc = "succ127" ->
           IF b.failure_count > 0 THEN Goto(b, r, "succ129") ELSE Done(b, r, r.val.ret)
      [] r.pc = "succ129" -> Done([b EXCEPT !.failure_count = 0], r, r.val.ret)
      [] r.pc = "fail133" -> Goto(b, [r EXCEPT !.n = b.failure_count], "fail133w")
      [] r.pc = "fail133w" -> Goto([b EXCEPT !.failure_count = r.n + 1], r, "fail134")
      [] r.pc = "fail134" -> Goto([b EXCEPT !.last_failure_time = At(t)], r, "fail144")
      [] r.pc = "fail144" ->
           IF b.state = HALF_OPEN THEN Goto(b, r, "fail147") ELSE Goto(b, r, "fail150")
      [] r.pc = "fail147" -> Goto([b EXCEPT !.state = OPEN], r, "fail148")
      [] r.pc = "fail148" -> Fail([b EXCEPT !.success_count = 0], r, r.val.exc)
      [] r.pc = "fail150" ->
           IF b.failure_count >= b.failure_threshold
           THEN Goto(b, r, "fail153") ELSE Fail(b, r, r.val.exc)
      [] r.pc = "fail153" -> Fail([b EXCEPT !.state = OPEN], r, r.val.exc)
      [] r.pc = "reset158" -> Goto([b EXCEPT !.state = CLOSED], r, "reset159")
      [] r.pc = "reset159" -> Goto([b EXCEPT !.failure_count = 0], r, "reset160")
      [] r.pc = "reset160" -> Goto([b EXCEPT !.success_count = 0], r, "reset161")
      [] r.pc = "reset161" -> Done([b EXCEPT !.last_failure_time = NoTime], r, None)

\* what the wrapped function of a call on the shared breaker does
Funcs == {[ret |-> "v1"], [exc |-> "DatabaseError"]}

\* a thread in no call starts breaker.call(func), where func does f
BeginCall(t, f) ==
    /\ th[t].pc = "idle"
    /\ \A u \in Threads : th[u].pc = "idle" => (t = "t1" \/ u # "t1")
    /\ started < MaxCalls
    /\ th' = [th EXCEPT ![t] = [Idle EXCEPT !.pc = "call85", !.op = "call", !.val = f]]
    /\ started' = started + 1
    /\ UNCHANGED <<now, written, clears, mixed, cohort, cacheVars, breakerVars, toolVars, redisVars, keyVars>>

\* a thread in no call starts breaker.reset()
BeginReset(t) ==
    /\ th[t].pc = "idle"
    /\ \A u \in Threads : th[u].pc = "idle" => (t = "t1" \/ u # "t1")
    /\ started < MaxCalls
    /\ th' = [th EXCEPT ![t] = [Idle EXCEPT !.pc = "reset158", !.op = "reset"]]
    /\ started' = started + 1
    /\ cohort' = [cohort EXCEPT !.clean = FALSE]
    /\ UNCHANGED <<now, written, clears, mixed, cacheVars, breakerVars, toolVars, redisVars, keyVars>>

\* a thread in call or reset executes its next statement; a call that
\* reaches the wrapped function (line 100) has been admitted
BreakerStep(t) ==
    /\ th[t].pc # "idle"
    /\ LET s == BreakerThreadStep(BreakerState, th[t], now)
       IN /\ BreakerBecomes(s.st)
          /\ th' = [th EXCEPT ![t] = s.r]
          /\ cohort' = [k |-> IF s.r.pc = "call100" THEN cohort.k + 1 ELSE cohort.k,
                         clean |-> IF s.r.pc = "call100"
                                   THEN /\ cohort.clean
                                        /\ state = CLOSED
                                        /\ failure_count = 0
                                        /\ "exc" \in DOMAIN th[t].val
                                   ELSE cohort.clean,
                         half |-> IF s.st.state # HALF_OPEN THEN 0
                                  ELSE IF s.r.pc = "call100" THEN cohort.half + 1
                                  ELSE cohort.half]
    /\ UNCHANGED <<now, pc, ev, streak, probes, last, written, started, clears, mixed,
                   cacheVars, toolVars, redisVars, keyVars>>

InitBreakerThreads ==
    /\ now = 0
    /\ NoCache
    /\ InitBreaker
    /\ NoTool
    /\ NoThreads
    /\ NoRedis
    /\ NoKeys

NextBreakerThreads ==
    \/ \E t \in Threads, f \in Funcs : BeginCall(t, f)
    \/ \E t \in Threads : BeginReset(t)
    \/ \E t \in Threads : BreakerStep(t)
    \/ BreakerTick

SpecBreakerThreads == InitBreakerThreads /\ [][NextBreakerThreads]_vars

-----------------------------------------------------------------------------
(* Properties of CacheService under SpecCache *)

\* C2: with max_size > 0, the number of stored entries never exceeds max_size
\* after any sequence of get, set, clear and _evict calls of a single caller.
C2_SizeWithinMax == max_size > 0 => Len(cache) <= max_size

\* a set of a new key into a full cache has evicted an entry and left it full
C2_Witness ==
    /\ max_size > 0
    /\ ret.op = "set"
    /\ ret.gone # {}
    /\ Len(cache) = max_size

C4_TtlExpiry ==
    [][(ret'.op = "get" /\ HasKey(cache, ret'.key))
        => LET age == now - setAt[ret'.key]
           IN /\ (ttl_seconds > 0 /\ age < ttl_seconds)
                    => ret'.val = ValueOf(cache, ret'.key)
              /\ (ttl_seconds > 0 /\ age > ttl_seconds)
                    => (ret'.val = None /\ ~HasKey(cache', ret'.key))
              /\ ttl_seconds = 0
                    => ret'.val = ValueOf(cache, ret'.key)]_vars

\* a get found its key expired: it returned not-found and removed the entry
C4_Witness ==
    /\ ret.op = "get"
    /\ ret.gone = {ret.key}
    /\ ret.val = None
    /\ ttl_seconds > 0

\* C5, as claimed: hits + misses equals the number of get calls since the
\* last clear, whatever the configuration.
C5_HitsPlusMissesIsGets == hits + misses = gets

\* C5, amended: on an enabled cache hits + misses equals the number of get
\* calls since the last clear; on a disabled cache both stay 0.
C5_Amended ==
    /\ enabled => GetStats(CacheState).hits + GetStats(CacheState).misses = gets
    /\ ~enabled => (hits = 0 /\ misses = 0)

\* an enabled cache has counted a hit and, for an expired entry, a miss
C5_Witness ==
    /\ enabled
    /\ hits = 1
    /\ misses = 1
    /\ ret.op = "get"
    /\ ret.gone # {}

-----------------------------------------------------------------------------
(* Properties of CircuitBreaker under SpecBreaker *)

\* the recovery timeout has elapsed since last_failure_time
Elapsed == now - TimeOf(last_failure_time) > timeout

\* the step is a call reaching the breaker: it is admitted or rejected
CallMade == ev' \in {"admit", "CircuitOpenError"}

\* C6: a Closed breaker has seen fewer than failure_threshold failed calls in
\* a row (failure_count counts them); a failed call in Closed opens it exactly
\* when it is the failure_threshold-th in a row, nothing else opens a Closed
\* breaker, and a successful call in Closed leaves it Closed with
\* failure_count = 0.
C6_OpensAtThreshold ==
    /\ [](state = CLOSED => (streak < failure_threshold /\ failure_count = streak))
    /\ [][/\ (state = CLOSED /\ ev' = "raise")
                => (state' = OPEN <=> streak' = failure_threshold)
          /\ (state = CLOSED /\ state' = OPEN) => ev' = "raise"
          /\ (state = CLOSED /\ ev' = "return")
                => (state' = CLOSED /\ failure_count' = 0)]_vars

\* the second failure in a row has opened a breaker of threshold 2
C6_Witness ==
    /\ failure_threshold = 2
    /\ state = OPEN
    /\ ev = "raise"
    /\ streak = 2
    /\ failure_count = 2

\* C7: while the breaker is Open and the recovery timeout has not elapsed
\* since last_failure_time, a call raises CircuitOpenError, does not run the
\* wrapped function and leaves state, failure_count, success_count and
\* last_failure_time unchanged.
C7_OpenRejects ==
    [][(CallMade /\ state = OPEN /\ last_failure_time # NoTime /\ ~Elapsed)
        => /\ ev' = "CircuitOpenError"
           /\ pc' = "idle"
           /\ UNCHANGED <<state, failure_count, success_count, last_failure_time>>]_vars

\* a call was rejected when exactly timeout seconds had passed
C7_Witness ==
    /\ ev = "CircuitOpenError"
    /\ state = OPEN
    /\ last_failure_time # NoTime
    /\ TimeOf(last_failure_time) > 0
    /\ now - TimeOf(last_failure_time) = timeout

\* C8: a call on an Open breaker made when now - last_failure_time > timeout
\* moves it to HalfOpen with success_count = 0 and runs the wrapped function,
\* whatever timestamp last_failure_time holds.
C8_ProbeAfterTimeout ==
    [][(CallMade /\ state = OPEN /\ last_failure_time # NoTime /\ Elapsed)
        => /\ ev' = "admit"
           /\ pc' = "running"
           /\ state' = HALF_OPEN
           /\ success_count' = 0]_vars

\* C9: in HalfOpen a successful call that is not yet the success_threshold-th
\* of the period leaves the breaker HalfOpen with success_count counting the
\* successes; the success_threshold-th closes it with failure_count = 0 and
\* success_count = 0; and no call closes a HalfOpen breaker earlier.
C9_ClosesAtThreshold ==
    [][/\ (state = HALF_OPEN /\ ev' = "return")
            => IF probes' >= success_threshold
               THEN state' = CLOSED /\ failure_count' = 0 /\ success_count' = 0
               ELSE state' = HALF_OPEN /\ success_count' = probes'
                    /\ success_count' = success_count + 1
       /\ (state = HALF_OPEN /\ state' = CLOSED /\ ev' # "reset")
            => (ev' = "return" /\ probes' = success_threshold)]_vars

\* the second success of a HalfOpen period closed a breaker that had counted
\* failures
C9_Witness ==
    /\ success_threshold = 2
    /\ ev = "return"
    /\ probes = 2
    /\ state = CLOSED
    /\ last_failure_time # NoTime

\* C10: a failed call while HalfOpen moves the breaker to Open, sets
\* success_count to 0 and records the time of the failure as
\* last_failure_time, however many HalfOpen successes came before.
C10_HalfOpenFailureReopens ==
    [][(state = HALF_OPEN /\ ev' = "raise")
        => /\ state' = OPEN
           /\ success_count' = 0
           /\ last_failure_time' = At(now)]_vars

\* a HalfOpen probe failed after an earlier probe of the period had succeeded
C10_Witness ==
    /\ ev = "raise"
    /\ state = OPEN
    /\ probes = 1
    /\ success_threshold = 2
    /\ failure_count > failure_threshold

\* C11: a call the breaker admits invokes the wrapped function exactly once
\* and gives its caller what the function gave: the value it returned, or the
\* exception it raised; a call the breaker rejects raises CircuitOpenError
\* and invokes the function zero times.
C11_PassesThroughOnce ==
    [][/\ ev' = "admit" => (pc' = "running" /\ last'.ran = 0)
       /\ ev' \in {"return", "raise"}
            => (pc = "running" /\ last'.ran = 1 /\ last'.call = last'.func)
       /\ ev' = "CircuitOpenError"
            => /\ pc' = "idle"
               /\ last'.ran = 0
               /\ last'.func = Nothing
               /\ last'.call = Some([exc |-> "CircuitOpenError"])]_vars

\* the failure that opened a Closed breaker reached the caller as the
\* DatabaseError the wrapped function raised
C11_Witness ==
    /\ ev = "raise"
    /\ last.from = CLOSED
    /\ state = OPEN
    /\ last.ran = 1
    /\ last.call = Some([exc |-> "DatabaseError"])

\* C12: reset, in whatever state and with whatever counters, leaves the
\* breaker Closed with failure_count = 0, success_count = 0 and
\* last_failure_time = None, and the next call on the breaker reset leaves
\* is admitted and runs the wrapped function.
C12_ResetCloses ==
    [][/\ ev' = "reset"
            => /\ state' = CLOSED
               /\ failure_count' = 0
               /\ success_count' = 0
               /\ last_failure_time' = NoTime
       /\ (CallMade /\ state = CLOSED /\ failure_count = 0 /\ success_count = 0
              /\ last_failure_time = NoTime)
            => (ev' = "admit" /\ pc' = "running" /\ state' = CLOSED)]_vars

\* reset has closed a HalfOpen breaker and cleared the time of its last failure
C12_Witness ==
    /\ ev = "reset"
    /\ last.from = HALF_OPEN
    /\ state = CLOSED
    /\ last_failure_time = NoTime

-----------------------------------------------------------------------------
(* Properties of ToolBase.__call__ under SpecTool *)

\* C1: whatever the parameters and whatever the work function does, __call__
\* returns an envelope and lets no exception through to its caller.
C1_AlwaysEnvelope ==
    response.params # None => (response.exc = "none" /\ response.env # Nothing)

\* the step is a __call__ of the tool with parameters params
Executes(params) ==
    /\ response'.params = params
    /\ \E work \in Works, d \in 0..MaxWork : Execute(params, work, d)

\* the envelope the last __call__ returned
Env == response.env[1]

\* C13: a __call__ whose parameters fail validation returns success = false
\* with error type ValidationError, calls neither cache.get nor cache.set
\* (entries, timestamps, hits and misses are unchanged) and does not invoke
\* the work function.
C13_InvalidTouchesNothing ==
    [][\A params \in Params \ ValidParams :
         Executes(params)
           => /\ response'.exc = "none"
              /\ response'.env # Nothing
              /\ Env'.success = FALSE
              /\ Env'.error[1].type = "ValidationError"
              /\ ~response'.looked /\ ~response'.stored /\ ~response'.ran
              /\ UNCHANGED <<cache, timestamps, hits, misses>>]_vars

\* invalid parameters were refused over an enabled cache that holds an entry
\* and has counted a miss
C13_Witness ==
    /\ response.params = "bad"
    /\ response.env # Nothing
    /\ Env.error # Nothing
    /\ enabled
    /\ cache # <<>>
    /\ misses = 1

\* C14: whenever cache.get finds the key during a __call__ (the cache counts
\* a hit), whatever the value stored under it, the work function and
\* cache.set are not invoked and the envelope returned carries the cached
\* value as data, from_cache = true and execution_time_ms = 0.
C14_HitServesCached ==
    [][\A params \in ValidParams :
         (Executes(params) /\ hits' = hits + 1)
           => /\ ~response'.ran
              /\ ~response'.stored
              /\ response'.env # Nothing
              /\ Env'.success
              /\ Env'.data = ValueOf(cache, GenerateKey(params))
              /\ Env'.metadata.from_cache = TRUE
              /\ Env'.metadata.execution_time_ms = 0]_vars

\* the last __call__ since the last clear returned a success envelope that
\* did not come from the cache
FreshSuccess ==
    /\ response.env # Nothing
    /\ Env.success
    /\ Env.metadata.from_cache = FALSE

\* the entry that call stored is within its TTL
WithinTtl == ttl_seconds = 0 \/ now - Env.metadata.timestamp <= ttl_seconds

\* C15: on an enabled cache with max_size >= 1, when a __call__ with
\* parameters p has succeeded with from_cache = false and, with no clear in
\* between and within the TTL, the next __call__ has the same parameters, it
\* returns from_cache = true and the data of the first call; when it has
\* other parameters, not stored themselves, it runs the work function and
\* returns from_cache = false.
C15_SecondCallFromCache ==
    [][\A params \in ValidParams :
         (enabled /\ max_size >= 1 /\ FreshSuccess /\ WithinTtl /\ Executes(params))
           => IF params = response.params
              THEN /\ ~response'.ran
                   /\ response'.env # Nothing
                   /\ Env'.success
                   /\ Env'.metadata.from_cache = TRUE
                   /\ Env'.data = Env.data
              ELSE ~HasKey(cache, GenerateKey(params))
                     => /\ response'.ran
                        /\ (response'.env # Nothing /\ Env'.success)
                              => Env'.metadata.from_cache = FALSE]_vars

\* C16: with the cache disabled, every __call__ with valid parameters invokes
\* the work function, whether or not the same parameters were used before,
\* and the envelope of a call that succeeds has from_cache = false.
C16_DisabledNeverFromCache ==
    [][\A params \in ValidParams :
         (~enabled /\ Executes(params))
           => /\ response'.ran
              /\ (response'.env # Nothing /\ Env'.success)
                    => Env'.metadata.from_cache = FALSE]_vars

\* a disabled cache still holds the result stored for p1 before it was
\* switched off, and a __call__ with p1 has run the work function again
C16_Witness ==
    /\ ~enabled
    /\ HasKey(cache, GenerateKey("p1"))
    /\ ValueOf(cache, GenerateKey("p1")) # None
    /\ response.params = "p1"
    /\ response.ran
    /\ response.env # Nothing
    /\ Env.success
    /\ Env.metadata.from_cache = FALSE
    /\ Env.metadata.timestamp > timestamps[GenerateKey("p1")]

-----------------------------------------------------------------------------
(* Properties of CacheService under SpecThreads *)

\* no thread is in a call
Quiet == \A t \in Threads : th[t].pc = "idle"

\* thread t has completed a call of op that raised
Raised(t, op) ==
    /\ th[t].pc = "idle"
    /\ th[t].op = op
    /\ th[t].res # Nothing
    /\ "exc" \in DOMAIN th[t].res[1]

\* C17: when threads call get and set concurrently (no clear), the number of
\* stored entries never exceeds max_size, and once the calls have completed
\* hits + misses equals the number of completed get calls.
C17_ThreadSafeCounts ==
    clears = 0 => /\ Len(cache) <= max_size
                  /\ Quiet => hits + misses = gets

\* C18: when the only calls that overlap a get or a set are clear calls, no
\* get and no set raises, and once the calls have completed the entries and
\* the timestamps have the same keys.
C18_ClearIsSafe ==
    ~mixed => /\ \A t \in Threads : ~Raised(t, "get") /\ ~Raised(t, "set")
              /\ Quiet => KeysOf(cache) = DOMAIN timestamps

\* C19: when no clear is called and every set so far was on the key of a get,
\* whichever way the get interleaves with the sets it does not raise, and it
\* returns not-found or a value one of the sets stored.
C19_GetRacingSet ==
    \A t \in Threads :
      (/\ clears = 0
       /\ th[t].pc = "idle"
       /\ th[t].op = "get"
       /\ \A w \in written : w[1] = th[t].key)
        => /\ ~Raised(t, "get")
           /\ th[t].res[1].ret \in {None} \cup {w[2] : w \in written}

-----------------------------------------------------------------------------
(* Properties of CircuitBreaker under SpecBreakerThreads *)

\* C20: when every call made so far was admitted by a Closed breaker with
\* failure_count = 0 and failed, there are failure_threshold of them or
\* more, and all have completed, then the breaker is Open and failure_count
\* is the number of those calls, whatever the interleaving.
C20_NoFailureLost ==
    (cohort.clean /\ cohort.k >= failure_threshold /\ Quiet)
      => (state = OPEN /\ failure_count = cohort.k)

\* C21: while the breaker is HalfOpen, the calls it has admitted to the
\* wrapped function since it became HalfOpen number at most
\* success_threshold, also when the calls come from several threads.
C21_BoundedProbes == state = HALF_OPEN => cohort.half <= success_threshold

\* the Redis server can be reached: the cache is enabled and connected
Connected == redis.enabled /\ ~redis.fallback_mode

C23_RejectionIsEnveloped ==
    ev = "CircuitOpenError"
    => /\ response.exc = "none"
       /\ response.env # Nothing
       /\ ~response.env[1].success
       /\ response.env[1].data = None
       /\ response.env[1].error[1].type = "CircuitOpenError"

\* C24: a request whose work function raises SimulationNotFoundError (the
\* simulation it names does not exist) gets a failure envelope of error type
\* SimulationNotFoundError, a type other than the DatabaseError reported for
\* a failed backend call.
C24_NotFoundHasItsOwnType ==
    [][\A params \in ValidParams, d \in 0..MaxWork :
          (/\ response'.params = params
           /\ Execute(params, [exc |-> "SimulationNotFoundError"], d))
          => /\ response'.exc = "none"
             /\ ~response'.env[1].success
             /\ response'.env[1].error[1].type = "SimulationNotFoundError"]_vars

\* the last request got a failure envelope of error type ValidationError
ReportsValidationError(r) ==
    /\ r.env # Nothing
    /\ ~r.env[1].success
    /\ r.env[1].error[1].type = "ValidationError"

\* C25: a request that got an envelope of error type ValidationError reached
\* neither cache.get nor the work function.
C25_ValidationBeforeLookup ==
    ReportsValidationError(response) => ~response.looked /\ ~response.ran

\* C25 amended: parameters that fail the schema get a ValidationError
\* envelope (its message the schema's error) before any cache lookup and
\* without the work function; any other ValidationError envelope comes from
\* a work function that was invoked after a cache miss and itself raised
\* ValidationError (the message is that exception's), and cache.set is not
\* called.
C25_Amended ==
    /\ response.params = "bad"
         => /\ ReportsValidationError(response)
            /\ ~response.looked /\ ~response.ran /\ ~response.stored
            /\ response.env[1].error[1].message = "PydanticValidationError"
    /\ response.params \in ValidParams /\ ReportsValidationError(response)
         => /\ response.looked /\ response.ran /\ ~response.stored
            /\ response.env[1].error[1].message = "ValidationError"

\* C25 witness: a ValidationError envelope for valid parameters, after the
\* lookup missed and the work function ran
C25_Witness ==
    /\ ReportsValidationError(response)
    /\ response.params \in ValidParams
    /\ response.looked
    /\ response.ran
    /\ misses >= 1

\* C26: every envelope __call__ returns has the fields success, data, error
\* and metadata, the metadata with tool, timestamp, from_cache and
\* execution_time_ms; success is true exactly when error is null, and a
\* failure has null data and an error with a type and a message.
C26_EnvelopeShape ==
    response.env # Nothing
    => /\ DOMAIN response.env[1] = {"success", "data", "error", "metadata"}
       /\ DOMAIN response.env[1].metadata
            = {"tool", "timestamp", "from_cache", "execution_time_ms"}
       /\ response.env[1].success <=> response.env[1].error = Nothing
       /\ ~response.env[1].success
            => /\ response.env[1].data = None
               /\ {"type", "message"} \subseteq DOMAIN response.env[1].error[1]

\* the two calls of generate_key have returned
BothKeys == \A i \in DOMAIN keygen : keygen[i].key # Nothing

\* the two dicts have the same names and differ in the value of one of them
ValueDiffers(p, q) ==
    /\ {x[1] : x \in Items(p)} = {x[1] : x \in Items(q)}
    /\ Items(p) # Items(q)

\* C27: generate_key returns the same key for the same tool name and equal
\* dicts whatever their insertion order, a different key when a parameter
\* value differs, and a different key when the tool name differs; the key is
\* tool_name:hexdigest.
C27_KeyDeterminism ==
    BothKeys
    => LET c == keygen[1]
           e == keygen[2]
       IN /\ c.tool_name = e.tool_name /\ Items(c.params) = Items(e.params)
               => c.key = e.key
          /\ c.tool_name = e.tool_name /\ ValueDiffers(c.params, e.params)
               => c.key # e.key
          /\ c.tool_name # e.tool_name => c.key # e.key
          /\ \E text \in {JsonDumps(c.params)} :
                c.key[1] = c.tool_name \o ":" \o Sha256Hex(text)

\* C28: clear, in whatever state, leaves no entry and hits = misses = 0; a
\* get issued right after it returns not-found, and the counters then show
\* that one get alone (a miss, which a disabled cache does not count).
C28_ClearRestarts ==
    [][/\ ret'.op = "clear"
            => /\ ret'.exc = "none"
               /\ cache' = <<>>
               /\ timestamps' = <<>>
               /\ hits' = 0
               /\ misses' = 0
       /\ ret.op = "clear" /\ ret'.op = "get"
            => /\ ret'.val = None
               /\ hits' = 0
               /\ misses' = IF enabled THEN 1 ELSE 0]_vars

\* C28 witness: a clear has removed the entries of a full cache
C28_Witness ==
    /\ ret.op = "clear"
    /\ Cardinality(ret.gone) = max_size
    /\ max_size > 1
    /\ cache = <<>>
    /\ hits = 0
    /\ misses = 0

\* C29: a cache that is disabled stores nothing and counts nothing, and its
\* get returns not-found, whatever set and get calls are made.
C29_DisabledStaysEmpty ==
    ~enabled
    => /\ cache = <<>>
       /\ timestamps = <<>>
       /\ hits = 0
       /\ misses = 0
       /\ GetStats(CacheState).size = 0
       /\ ret.op = "get" => ret.val = None
       /\ ret.op \in {"get", "set"} => ret.exc = "none"

\* C29 witness: a set on a disabled cache, after its gets
C29_Witness ==
    /\ ~enabled
    /\ ret.op = "set"
    /\ gets = MaxGets
    /\ max_size >= 1

\* C30: on an enabled cache, set on a stored key replaces its value, sets its
\* timestamp to the time of the call, makes it the most recently used and
\* evicts nothing (the size is unchanged); set of a key that is not stored
\* evicts exactly one entry if the size equals max_size, and none otherwise.
C30_SetEvictsOnlyWhenFull ==
    [][ret'.op = "set" /\ enabled
        => IF HasKey(cache, ret'.key)
           THEN /\ ret'.exc = "none"
                /\ ValueOf(cache', ret'.key) = ret'.val
                /\ timestamps'[ret'.key] = now
                /\ cache'[Len(cache')].k = ret'.key
                /\ ret'.gone = {}
                /\ Len(cache') = Len(cache)
           ELSE Cardinality(ret'.gone) = IF Len(cache) = max_size THEN 1 ELSE 0]_vars

\* C30 amended: as C30, with a set of a key that is not stored evicting
\* exactly one entry if the size equals max_size and max_size >= 1; with
\* max_size = 0 there is no entry to evict: the set evicts none, stores
\* nothing and raises StopIteration.
C30_Amended ==
    [][ret'.op = "set" /\ enabled
        => IF HasKey(cache, ret'.key)
           THEN /\ ret'.exc = "none"
                /\ ValueOf(cache', ret'.key) = ret'.val
                /\ timestamps'[ret'.key] = now
                /\ cache'[Len(cache')].k = ret'.key
                /\ ret'.gone = {}
                /\ Len(cache') = Len(cache)
           ELSE IF max_size >= 1
           THEN /\ ret'.exc = "none"
                /\ Cardinality(ret'.gone) = IF Len(cache) = max_size THEN 1 ELSE 0
           ELSE /\ ret'.exc = "StopIteration"
                /\ ret'.gone = {}
                /\ cache' = cache]_vars

\* C30 witness: the set of a new key on a full cache has evicted one entry
C30_Witness ==
    /\ enabled
    /\ ret.op = "set"
    /\ ret.exc = "none"
    /\ Cardinality(ret.gone) = 1
    /\ ret.key \notin ret.gone
    /\ Len(cache) = max_size

\* C31: with ttl_seconds > 0, a get of a stored key set more than ttl_seconds
\* ago returns not-found, removes that entry and no other (the other entries
\* keep their values, order and timestamps), adds one to misses and leaves
\* hits unchanged.
C31_ExpiredGetEvicts ==
    [][(/\ ret'.op = "get"
        /\ HasKey(cache, ret'.key)
        /\ ttl_seconds > 0
        /\ now - setAt[ret'.key] > ttl_seconds)
       => /\ ret'.val = None
          /\ ret'.exc = "none"
          /\ cache' = DelKey(cache, ret'.key)
          /\ Len(cache') = Len(cache) - 1
          /\ timestamps' = DelTimestamp(timestamps, ret'.key)
          /\ misses' = misses + 1
          /\ hits' = hits]_vars

\* C31 witness: a get has removed its expired key and left another entry
C31_Witness ==
    /\ ret.op = "get"
    /\ ret.val = None
    /\ ret.gone = {ret.key}
    /\ Len(cache) >= 1
    /\ misses >= 1

\* the step is a __call__: it leaves a response, and a new one or a new count
\* of lookups (the other steps reset the response or keep both)
ExecuteStep ==
    /\ response' # NoResponse
    /\ response' # response \/ hits' # hits \/ misses' # misses

\* the work function of the request was invoked and raised: cache.set was
\* not reached
WorkFailed(r) == r.ran /\ ~r.stored

\* C32: when the work function raises, __call__ returns an envelope with
\* success = false and data = null and stores nothing (no entry is added or
\* altered; the lookup may have purged the expired entry of its own key), and
\* the next __call__ with the same parameters invokes the work function again.
C32_FailureNotCached ==
    [][/\ ExecuteStep /\ WorkFailed(response')
            => /\ response'.exc = "none"
               /\ response'.env # Nothing
               /\ ~response'.env[1].success
               /\ response'.env[1].data = None
               /\ cache' \in {cache, DelKey(cache, GenerateKey(response'.params))}
       /\ ExecuteStep /\ WorkFailed(response) /\ response'.params = response.params
            => response'.ran]_vars

\* C33: in every mode of the RedisCacheService (connected, disabled,
\* fallback) hits + misses equals the number of get calls since the last
\* clear; in particular hits and misses are 0 right after a clear.
C33_RedisCountsLikeLocal == redis.hits + redis.misses = wire.gets

\* C34: when time keeps advancing, calls keep arriving and the wrapped
\* function succeeds on every call from some point on, a breaker that is
\* Open eventually becomes Closed.
C34_OpenEventuallyCloses == (state = OPEN) ~> (state = CLOSED)

\* C35: whenever the breaker is Open, last_failure_time holds a timestamp,
\* under any interleaving of call and reset made by different threads.
C35_OpenHasFailureTime == state = OPEN => last_failure_time # NoTime

\* C36: for every configuration CacheConfig accepts, max_size = 0 included,
\* a __call__ whose work function returned (so that cache.set was called)
\* raises nothing and returns a success envelope.
C36_SetNeverRaises ==
    response.stored
    => /\ response.exc = "none"
       /\ response.env # Nothing
       /\ response.env[1].success

\* C37: after any sequence of get, set, clear and _evict calls by a single
\* caller, _cache and _timestamps hold exactly the same keys.
C37_SameKeys == KeysOf(cache) = DOMAIN timestamps

\* C37 witness: a call has removed an entry and another entry is stored
C37_Witness ==
    /\ ret.gone # {}
    /\ cache # <<>>
    /\ KeysOf(cache) = DOMAIN timestamps

\* C38: with a single caller and thresholds of 1 or more, between calls a
\* Closed breaker has failure_count < failure_threshold, and success_count >
\* 0 only in a HalfOpen breaker, where it is below success_threshold.
C38_CountersFitState ==
    /\ state = CLOSED => failure_count < failure_threshold
    /\ success_count > 0 => state = HALF_OPEN /\ success_count < success_threshold

\* C38 witness: a HalfOpen breaker has counted a successful probe, after the
\* failures that opened it
C38_Witness ==
    /\ state = HALF_OPEN
    /\ success_count > 0
    /\ failure_count >= failure_threshold
    /\ pc = "idle"

\* C39: a get that hits moves its entry to the most-recently-used end and
\* leaves every timestamp as it was; the timestamp of a stored key is the time
\* of the last set of that key, however often it was read since, so only a set
\* of the key restarts its lifetime.
C39_ReadsDoNotExtendLifetime ==
    [][/\ (ret'.op = "get" /\ hits' = hits + 1)
            => /\ timestamps' = timestamps
               /\ cache' = MoveToEnd(cache, ret'.key)
               /\ cache'[Len(cache')].k = ret'.key
       /\ \A k \in KeysOf(cache) \cap KeysOf(cache') :
            timestamps'[k] # timestamps[k] => ret'.op = "set" /\ ret'.key = k
       /\ \A k \in KeysOf(cache') : timestamps'[k] = setAt'[k]]_vars

\* a get hit an entry that was set earlier and had been read before, and the
\* entry still carries the time of its set
C39_Witness ==
    /\ ret.op = "get"
    /\ ret.val # None
    /\ hits >= 2
    /\ Len(cache) = 1
    /\ HasKey(cache, ret.key)
    /\ timestamps[ret.key] < now

\* the age test of CacheService.get, applied to a stored key at the current time
Expired(key) == ttl_seconds > 0 /\ now - timestamps[key] > ttl_seconds

\* C40: on an enabled cache holding at least one entry, a set of a new key at
\* capacity evicts the least recently used entry whether or not it or any other
\* entry has expired, and every other entry, expired or not, stays stored and is
\* counted in the size get_stats reports; an entry leaves the cache only in a
\* get of its own key, in an eviction or in a clear, never by time passing.
C40_LruIgnoresAges ==
    [][/\ (ret'.op = "set" /\ enabled /\ cache # <<>> /\ ~HasKey(cache, ret'.key)
            /\ Len(cache) >= max_size)
            => /\ ret'.gone = {Head(lru)}
               /\ Head(lru) = Head(cache).k
               /\ KeysOf(cache') = (KeysOf(cache) \ {Head(lru)}) \cup {ret'.key}
               /\ GetStats(CacheState).size = Len(cache)
               /\ Len(cache') = Len(cache)
       /\ ret'.op = "get" => ret'.gone \subseteq {ret'.key}
       /\ ret'.op = "tick" => cache' = cache /\ timestamps' = timestamps]_vars

\* a set of a new key on a full cache of two evicted an entry, and the entry it
\* left stored beside the new one has expired
C40_Witness ==
    /\ ret.op = "set"
    /\ ret.gone # {}
    /\ max_size = 2
    /\ GetStats(CacheState).size = 2
    /\ \E k \in KeysOf(cache) : Expired(k)

====
